---- MODULE Spec2Model ----
(***************************************************************************)
(* Model of src/unwinder/arch/arm.rs: the 32-bit ARM register Context, its *)
(* Index / IndexMut resolver over gimli register numbers, and the two      *)
(* naked assembly primitives save_context and restore_context.             *)
(*                                                                         *)
(* Memory is word-granular and byte-addressed; a Context occupies          *)
(* ContextSize bytes laid out as #[repr(C)] lays it out (gp, then fp).     *)
(* The assembly is modelled instruction by instruction and run by a small  *)
(* interpreter (Step / Exec) over the live register file and memory.       *)
(***************************************************************************)
EXTENDS Integers, Sequences, FiniteSets, TLC

VARIABLES vfp2,    \* build configuration: cfg(target_feature = "vfp2")
          regs,    \* live general-purpose registers r0..r15 (r15 = pc)
          sregs,   \* live single-precision registers s0..s31
          mem,     \* memory words holding the Context objects
          live,    \* Context objects that have been constructed
          status,  \* "running", or "panicked" after unimplemented!()
          last,    \* the last operation performed and what it returned
          acc,     \* memory addresses read / written by the last primitive
          nops     \* number of operations performed so far

vars == <<vfp2, regs, sregs, mem, live, status, last, acc, nops>>

(***************************************************************************)
(* Bounds of the model.                                                    *)
(***************************************************************************)
\* Number of Context objects in memory, minus one.
MaxCtx == 1
\* Largest seed of the register and memory contents drawn by Init.
MaxSeed == 1
\* Largest register number handed to index / index_mut.
MaxRegId == 289
\* Operations per behaviour in the index specification.
MaxIndexOps == 2
\* Operations per behaviour in the transfer specification.
MaxXferOps == 3

(***************************************************************************)
(* Program constants (arm.rs lines 9-13) and the layout of Context.        *)
(***************************************************************************)
GP_REGS == 16
GP_LAST_REG_NUM == GP_REGS - 1
FP_REGS == 32
FP_REG_NUM_OFFSET == 256
FP_LAST_REG_NUM == FP_REG_NUM_OFFSET + FP_REGS - 1

\* size_of::<usize>() on 32-bit ARM; the 0x4 factor of every asm offset.
WordBytes == 4

\* #[repr(C)] struct Context { gp: [usize; 16], fp: [usize; 32] }
gp_field_offset == 0
fp_field_offset == gp_field_offset + WordBytes * GP_REGS
ContextSize == fp_field_offset + WordBytes * FP_REGS

Ctxs == 0..MaxCtx
CtxBase(c) == (c + 1) * ContextSize
CtxAddrs(c) == { CtxBase(c) + WordBytes * w : w \in 0..(GP_REGS + FP_REGS - 1) }
MemAddrs == UNION { CtxAddrs(c) : c \in Ctxs }
\* Address a lies inside Context c.
InCtx(c, a) == a >= CtxBase(c) /\ a < CtxBase(c) + ContextSize

\* Outcome of unimplemented!() / an out-of-bounds array index: a panic.
Panic == -1

(***************************************************************************)
(* Array element places: &self.gp[i] and &self.fp[i], bounds-checked.      *)
(***************************************************************************)
gp_elem(base, i) ==
    IF i >= 0 /\ i < GP_REGS THEN base + gp_field_offset + WordBytes * i ELSE Panic

\* Mutant: the fp bank placed at the start of the Context, over gp.
fp_elem_no_field_offset(base, i) ==
    IF i >= 0 /\ i < FP_REGS THEN base + WordBytes * i ELSE Panic

fp_elem(base, i) ==
    IF i >= 0 /\ i < FP_REGS THEN base + fp_field_offset + WordBytes * i ELSE Panic

(***************************************************************************)
(* Index<Register> for Context (arm.rs 41-53) and IndexMut (55-65): the    *)
(* place of the slot a register number designates, or Panic.               *)
(***************************************************************************)
\* Mutant: an unsupported register number falls back to the first slot.
index_fabricates_slot(base, reg) ==
    IF reg >= 0 /\ reg <= GP_LAST_REG_NUM
    THEN gp_elem(base, reg)
    ELSE IF reg >= FP_REG_NUM_OFFSET /\ reg <= FP_LAST_REG_NUM
         THEN fp_elem(base, reg - FP_REG_NUM_OFFSET)
         ELSE gp_elem(base, 0)

index(base, reg) ==
    IF reg >= 0 /\ reg <= GP_LAST_REG_NUM
    THEN gp_elem(base, reg)
    ELSE IF reg >= FP_REG_NUM_OFFSET /\ reg <= FP_LAST_REG_NUM
         THEN fp_elem(base, reg - FP_REG_NUM_OFFSET)
         ELSE Panic

\* Mutant: the fp range starts one register number late.
index_mut_off_by_one(base, reg) ==
    IF reg >= 0 /\ reg <= GP_LAST_REG_NUM
    THEN gp_elem(base, reg)
    ELSE IF reg > FP_REG_NUM_OFFSET /\ reg <= FP_LAST_REG_NUM
         THEN fp_elem(base, reg - FP_REG_NUM_OFFSET)
         ELSE Panic

\* Mutant: the fp arm indexes the gp array.
index_mut_fp_into_gp(base, reg) ==
    IF reg >= 0 /\ reg <= GP_LAST_REG_NUM
    THEN gp_elem(base, reg)
    ELSE IF reg >= FP_REG_NUM_OFFSET /\ reg <= FP_LAST_REG_NUM
         THEN gp_elem(base, reg - FP_REG_NUM_OFFSET)
         ELSE Panic

index_mut(base, reg) ==
    IF reg >= 0 /\ reg <= GP_LAST_REG_NUM
    THEN gp_elem(base, reg)
    ELSE IF reg >= FP_REG_NUM_OFFSET /\ reg <= FP_LAST_REG_NUM
         THEN fp_elem(base, reg - FP_REG_NUM_OFFSET)
         ELSE Panic

(***************************************************************************)
(* The assembly.  An instruction is a record; rt is the transferred        *)
(* register, rn the base register and off the immediate byte offset.       *)
(***************************************************************************)
Str(rt, rn, off)  == [op |-> "str",  rt |-> rt, rn |-> rn, off |-> off]
Ldr(rt, rn, off)  == [op |-> "ldr",  rt |-> rt, rn |-> rn, off |-> off]
Vstr(rt, rn, off) == [op |-> "vstr", rt |-> rt, rn |-> rn, off |-> off]
Vldr(rt, rn, off) == [op |-> "vldr", rt |-> rt, rn |-> rn, off |-> off]
Bx(rm)            == [op |-> "bx",   rt |-> rm, rn |-> rm, off |-> 0]

\* Register numbers of lr (r14, the operand of bx) and pc (r15).
LR == 14
PC == 15

\* Mutant: r11 stored into the slot of r10.
save_regs_gp_r11_into_r10 ==
    <<
       Str(4, 0, WordBytes * 4),
       Str(5, 0, WordBytes * 5),
       Str(6, 0, WordBytes * 6),
       Str(7, 0, WordBytes * 7),
       Str(8, 0, WordBytes * 8),
       Str(9, 0, WordBytes * 9),
       Str(10, 0, WordBytes * 10),
       Str(11, 0, WordBytes * 10),
       Str(13, 0, WordBytes * 13),
       Str(14, 0, WordBytes * 14)
    >>

\* macro save_regs!(gp), arm.rs 68-81
save_regs_gp ==
    <<
       Str(4, 0, WordBytes * 4),
       Str(5, 0, WordBytes * 5),
       Str(6, 0, WordBytes * 6),
       Str(7, 0, WordBytes * 7),
       Str(8, 0, WordBytes * 8),
       Str(9, 0, WordBytes * 9),
       Str(10, 0, WordBytes * 10),
       Str(11, 0, WordBytes * 11),
       Str(13, 0, WordBytes * 13),
       Str(14, 0, WordBytes * 14)
    >>

\* macro save_regs!(fp), arm.rs 82-101
save_regs_fp(fp_offset) ==
    <<
       Vstr(16, 0, WordBytes * (fp_offset + 16)),
       Vstr(17, 0, WordBytes * (fp_offset + 17)),
       Vstr(18, 0, WordBytes * (fp_offset + 18)),
       Vstr(19, 0, WordBytes * (fp_offset + 19)),
       Vstr(20, 0, WordBytes * (fp_offset + 20)),
       Vstr(21, 0, WordBytes * (fp_offset + 21)),
       Vstr(22, 0, WordBytes * (fp_offset + 22)),
       Vstr(23, 0, WordBytes * (fp_offset + 23)),
       Vstr(24, 0, WordBytes * (fp_offset + 24)),
       Vstr(25, 0, WordBytes * (fp_offset + 25)),
       Vstr(26, 0, WordBytes * (fp_offset + 26)),
       Vstr(27, 0, WordBytes * (fp_offset + 27)),
       Vstr(28, 0, WordBytes * (fp_offset + 28)),
       Vstr(29, 0, WordBytes * (fp_offset + 29)),
       Vstr(30, 0, WordBytes * (fp_offset + 30)),
       Vstr(31, 0, WordBytes * (fp_offset + 31))
    >>

\* Mutant: r5 loaded from the slot of r4.
restore_regs_gp_r5_from_r4 ==
    <<
       Ldr(4, 0, WordBytes * 4),
       Ldr(5, 0, WordBytes * 4),
       Ldr(6, 0, WordBytes * 6),
       Ldr(7, 0, WordBytes * 7),
       Ldr(8, 0, WordBytes * 8),
       Ldr(9, 0, WordBytes * 9),
       Ldr(10, 0, WordBytes * 10),
       Ldr(11, 0, WordBytes * 11),
       Ldr(13, 0, WordBytes * 13),
       Ldr(14, 0, WordBytes * 14)
    >>

\* macro restore_regs!(gp), arm.rs 105-118
restore_regs_gp ==
    <<
       Ldr(4, 0, WordBytes * 4),
       Ldr(5, 0, WordBytes * 5),
       Ldr(6, 0, WordBytes * 6),
       Ldr(7, 0, WordBytes * 7),
       Ldr(8, 0, WordBytes * 8),
       Ldr(9, 0, WordBytes * 9),
       Ldr(10, 0, WordBytes * 10),
       Ldr(11, 0, WordBytes * 11),
       Ldr(13, 0, WordBytes * 13),
       Ldr(14, 0, WordBytes * 14)
    >>

\* macro restore_regs!(fp), arm.rs 119-138
restore_regs_fp(fp_offset) ==
    <<
       Vldr(16, 0, WordBytes * (fp_offset + 16)),
       Vldr(17, 0, WordBytes * (fp_offset + 17)),
       Vldr(18, 0, WordBytes * (fp_offset + 18)),
       Vldr(19, 0, WordBytes * (fp_offset + 19)),
       Vldr(20, 0, WordBytes * (fp_offset + 20)),
       Vldr(21, 0, WordBytes * (fp_offset + 21)),
       Vldr(22, 0, WordBytes * (fp_offset + 22)),
       Vldr(23, 0, WordBytes * (fp_offset + 23)),
       Vldr(24, 0, WordBytes * (fp_offset + 24)),
       Vldr(25, 0, WordBytes * (fp_offset + 25)),
       Vldr(26, 0, WordBytes * (fp_offset + 26)),
       Vldr(27, 0, WordBytes * (fp_offset + 27)),
       Vldr(28, 0, WordBytes * (fp_offset + 28)),
       Vldr(29, 0, WordBytes * (fp_offset + 29)),
       Vldr(30, 0, WordBytes * (fp_offset + 30)),
       Vldr(31, 0, WordBytes * (fp_offset + 31))
    >>

\* Mutant: the fp block is assembled whatever the build configuration.
save_context_asm_always_fp(vfp) ==
    save_regs_gp \o save_regs_fp(GP_REGS) \o << Bx(LR) >>

\* The body of save_context (arm.rs 145-152) for a build with / without vfp2.
save_context_asm(vfp) ==
    IF vfp
    THEN save_regs_gp \o save_regs_fp(GP_REGS) \o << Bx(LR) >>
    ELSE save_regs_gp \o << Bx(LR) >>

\* The body of restore_context (arm.rs 159-166) for a build with / without vfp2.
restore_context_asm(vfp) ==
    IF vfp
    THEN restore_regs_gp \o restore_regs_fp(GP_REGS) \o << Bx(LR) >>
    ELSE restore_regs_gp \o << Bx(LR) >>

(***************************************************************************)
(* The interpreter.  A machine state m has the register files r and s, the *)
(* memory mem, and the sets rd / wr of addresses loaded from / stored to.  *)
(***************************************************************************)
Step(ins, m) ==
    LET addr == m.r[ins.rn] + ins.off
    IN  CASE ins.op = "str"  ->
               [m EXCEPT !.mem[addr] = m.r[ins.rt], !.wr = @ \cup {addr}]
          [] ins.op = "vstr" ->
               [m EXCEPT !.mem[addr] = m.s[ins.rt], !.wr = @ \cup {addr}]
          [] ins.op = "ldr"  ->
               [m EXCEPT !.r[ins.rt] = m.mem[addr], !.rd = @ \cup {addr}]
          [] ins.op = "vldr" ->
               [m EXCEPT !.s[ins.rt] = m.mem[addr], !.rd = @ \cup {addr}]
          [] ins.op = "bx"   ->
               [m EXCEPT !.r[PC] = m.r[ins.rt]]

RECURSIVE Exec(_, _)
Exec(prog, m) ==
    IF prog = << >> THEN m ELSE Exec(Tail(prog), Step(Head(prog), m))

\* The machine on entry to an extern "C" routine called with `arg` in r0
\* (the hidden return-slot pointer or the first argument) from a call site
\* whose return address is ra: bl sets lr.
Entry(arg, ra) ==
    [r   |-> [regs EXCEPT ![0] = arg, ![LR] = ra],
     s   |-> sregs,
     mem |-> mem,
     rd  |-> {},
     wr  |-> {}]

(***************************************************************************)
(* Inputs.                                                                 *)
(***************************************************************************)
Seeds == 0..MaxSeed
RegIds == 0..MaxRegId
\* Register numbers read through index: both ranges and their neighbours.
ProbeIds == { id \in RegIds : id <= GP_REGS \/ id >= FP_REG_NUM_OFFSET - 1 } \cup { 200 }
\* Register numbers written through index_mut.
WriteIds == { 0, 13, LR, PC, GP_REGS, 200, FP_REG_NUM_OFFSET, FP_LAST_REG_NUM,
              FP_LAST_REG_NUM + 1 }
\* Register numbers written while a Context is prepared for a transfer.
XferIds == { 4, PC, FP_REG_NUM_OFFSET + 16, FP_LAST_REG_NUM + 1 }
\* Values written through index_mut (0x1000 and 0x2000).
Vals == { 4096, 8192 }
\* The value written while a Context is prepared for a transfer.
XferVals == { 4096 }
\* Return addresses of the call sites of save_context / restore_context.
RetAddrs == { 32768 + WordBytes * i : i \in 1..2 }

\* Live register contents: every register holds a value of its own.
GpSeed(p, k) == (p + 1) * 65536 + WordBytes * k
FpSeed(p, k) == (p + 1) * 65536 + 1024 + k
\* Contents of a Context the engine has populated (seed 0: Context::default()).
CtxSeed(q, a) == IF q = 0 THEN 0 ELSE q * 1048576 + a
\* Contents of memory nobody has initialised: zero, or a value per address.
Garbage(g, a) == IF g = 0 THEN 0 ELSE g * 16777216 + a

NoOp == [op |-> "none", ctx |-> 0, src |-> 0, id |-> 0, val |-> 0, slot |-> 0, ra |-> 0]

\* The engine holds one working Context (number 0), zero-initialised or
\* populated; the rest of memory has never been written.
Init ==
    /\ vfp2 \in BOOLEAN
    /\ \E p \in Seeds :
          /\ regs  = [k \in 0..(GP_REGS - 1) |-> GpSeed(p, k)]
          /\ sregs = [k \in 0..(FP_REGS - 1) |-> FpSeed(p, k)]
          /\ mem = [a \in MemAddrs |->
                       IF InCtx(0, a) THEN CtxSeed(p, a) ELSE Garbage(p, a)]
    /\ live = {0}
    /\ status = "running"
    /\ last = NoOp
    /\ acc = [rd |-> {}, wr |-> {}]
    /\ nops = 0

(***************************************************************************)
(* Context::default() (#[derive(Default)], arm.rs 16): every slot zero.    *)
(***************************************************************************)
DefaultOp(c) ==
    /\ status = "running"
    /\ mem' = [a \in MemAddrs |-> IF InCtx(c, a) THEN 0 ELSE mem[a]]
    /\ live' = live \cup {c}
    /\ last' = [NoOp EXCEPT !.op = "default", !.ctx = c]
    /\ acc' = [rd |-> {}, wr |-> CtxAddrs(c)]
    /\ nops' = nops + 1
    /\ UNCHANGED <<vfp2, regs, sregs, status>>

(***************************************************************************)
(* let dst = src.clone(), or dst.clone_from(&src) (#[derive(Clone)],       *)
(* arm.rs 16): dst is a Context of its own holding the 48 words of src.    *)
(***************************************************************************)
CloneOp(src, dst) ==
    /\ status = "running"
    /\ src \in live
    /\ dst # src
    /\ mem' = [a \in MemAddrs |->
                  IF InCtx(dst, a) THEN mem[a - CtxBase(dst) + CtxBase(src)]
                                         ELSE mem[a]]
    /\ live' = live \cup {dst}
    /\ last' = [NoOp EXCEPT !.op = "clone", !.ctx = dst, !.src = src]
    /\ acc' = [rd |-> CtxAddrs(src), wr |-> CtxAddrs(dst)]
    /\ nops' = nops + 1
    /\ UNCHANGED <<vfp2, regs, sregs, status>>

(***************************************************************************)
(* ctx[Register(id)] = v, through index_mut (arm.rs 56-64).                *)
(***************************************************************************)
IndexMutOp(c, id, v) ==
    /\ status = "running"
    /\ c \in live
    /\ LET slot == index_mut(CtxBase(c), id)
       IN  /\ last' = [NoOp EXCEPT !.op = "index_mut", !.ctx = c, !.id = id,
                                   !.val = v, !.slot = slot]
           /\ IF slot = Panic
              THEN /\ status' = "panicked"
                   /\ mem' = mem
                   /\ acc' = [rd |-> {}, wr |-> {}]
              ELSE /\ status' = status
                   /\ mem' = [mem EXCEPT ![slot] = v]
                   /\ acc' = [rd |-> {}, wr |-> {slot}]
    /\ nops' = nops + 1
    /\ UNCHANGED <<vfp2, regs, sregs, live>>

(***************************************************************************)
(* ctx[Register(id)] read through index (arm.rs 44-52).                    *)
(***************************************************************************)
IndexOp(c, id) ==
    /\ status = "running"
    /\ c \in live
    /\ LET slot == index(CtxBase(c), id)
       IN  IF slot = Panic
           THEN /\ status' = "panicked"
                /\ last' = [NoOp EXCEPT !.op = "index", !.ctx = c, !.id = id,
                                        !.slot = slot]
                /\ acc' = [rd |-> {}, wr |-> {}]
           ELSE /\ status' = status
                /\ last' = [NoOp EXCEPT !.op = "index", !.ctx = c, !.id = id,
                                        !.val = mem[slot], !.slot = slot]
                /\ acc' = [rd |-> {slot}, wr |-> {}]
    /\ nops' = nops + 1
    /\ UNCHANGED <<vfp2, regs, sregs, mem, live>>

(***************************************************************************)
(* let c = save_context(); called from the site returning to ra.  The      *)
(* Context is returned in memory: r0 holds the address of the return slot. *)
(***************************************************************************)
SaveContextOp(c, ra) ==
    /\ status = "running"
    /\ \E m \in { Exec(save_context_asm(vfp2), Entry(CtxBase(c), ra)) } :
          /\ regs' = m.r
          /\ sregs' = m.s
          /\ mem' = m.mem
          /\ acc' = [rd |-> m.rd, wr |-> m.wr]
    /\ live' = live \cup {c}
    /\ last' = [NoOp EXCEPT !.op = "save_context", !.ctx = c, !.ra = ra]
    /\ nops' = nops + 1
    /\ UNCHANGED <<vfp2, status>>

(***************************************************************************)
(* restore_context(&c), called from the site returning to ra; it never     *)
(* returns there.                                                          *)
(***************************************************************************)
RestoreContextOp(c, ra) ==
    /\ status = "running"
    /\ c \in live
    /\ \E m \in { Exec(restore_context_asm(vfp2), Entry(CtxBase(c), ra)) } :
          /\ regs' = m.r
          /\ sregs' = m.s
          /\ mem' = m.mem
          /\ acc' = [rd |-> m.rd, wr |-> m.wr]
    /\ last' = [NoOp EXCEPT !.op = "restore_context", !.ctx = c]
    /\ nops' = nops + 1
    /\ UNCHANGED <<vfp2, live, status>>

(***************************************************************************)
(* Specifications.  IndexSpec exercises the resolver; Spec exercises the   *)
(* transfer primitives on Contexts the engine has prepared.                *)
(***************************************************************************)
IndexDefault == \E c \in Ctxs : nops < MaxIndexOps /\ DefaultOp(c)
IndexWrite ==
    \E c \in Ctxs, id \in WriteIds, v \in Vals : nops < MaxIndexOps /\ IndexMutOp(c, id, v)
IndexRead == \E c \in Ctxs, id \in ProbeIds : nops < MaxIndexOps /\ IndexOp(c, id)

IndexClone == \E src \in Ctxs, dst \in Ctxs : nops < MaxIndexOps /\ CloneOp(src, dst)

NextIndex == IndexDefault \/ IndexClone \/ IndexWrite \/ IndexRead

IndexSpec == Init /\ [][NextIndex]_vars

XferDefault == \E c \in Ctxs : nops < MaxXferOps /\ DefaultOp(c)
XferWrite ==
    \E c \in Ctxs, id \in XferIds, v \in XferVals : nops < MaxXferOps /\ IndexMutOp(c, id, v)
XferSave == \E c \in Ctxs, ra \in RetAddrs : nops < MaxXferOps /\ SaveContextOp(c, ra)
XferRestore == \E c \in Ctxs, ra \in RetAddrs : nops < MaxXferOps /\ RestoreContextOp(c, ra)

XferClone == \E src \in Ctxs, dst \in Ctxs : nops < MaxXferOps /\ CloneOp(src, dst)

Next == XferDefault \/ XferClone \/ XferWrite \/ XferSave \/ XferRestore

Spec == Init /\ [][Next]_vars

(***************************************************************************)
(* Vocabulary of the properties, stated with the numbers of the            *)
(* specification rather than with the program's constants.                 *)
(***************************************************************************)
GpIds == 0..15
FpIds == 256..287
ValidIds == GpIds \cup FpIds
\* Registers the primitives transfer: r4-r11, sp, lr and s16-s31.
PreservedGp == 4..11
CapturedGp == PreservedGp \cup {13, 14}
CapturedFp == 16..31
\* The slot of general-purpose / floating-point register k of Context c.
GpSlot(c, k) == gp_elem(CtxBase(c), k)
FpSlot(c, k) == fp_elem(CtxBase(c), k)
AllFpSlots == { FpSlot(c, k) : c \in Ctxs, k \in 0..31 }
AllGpSlots == { GpSlot(c, k) : c \in Ctxs, k \in 0..15 }
\* The step just taken performed operation op.
Did(op) == nops' = nops + 1 /\ last'.op = op

(***************************************************************************)
(* C1.  Every register number in 0..=15 resolves, through index and        *)
(* index_mut alike, to general-purpose slot gp[id], and every number in    *)
(* 256..=287 to floating-point slot fp[id-256]; distinct valid numbers     *)
(* resolve to distinct slots, and exactly 48 numbers are accepted.  An     *)
(* access with a valid number returns that slot and does not panic.        *)
(***************************************************************************)
C1_Resolver ==
    /\ \A c \in Ctxs :
          /\ \A id \in GpIds :
                /\ index(CtxBase(c), id) = GpSlot(c, id)
                /\ index_mut(CtxBase(c), id) = GpSlot(c, id)
                /\ GpSlot(c, id) \in CtxAddrs(c)
          /\ \A id \in FpIds :
                /\ index(CtxBase(c), id) = FpSlot(c, id - 256)
                /\ index_mut(CtxBase(c), id) = FpSlot(c, id - 256)
                /\ FpSlot(c, id - 256) \in CtxAddrs(c)
          /\ Cardinality({ index(CtxBase(c), id) : id \in ValidIds }) = 48
          /\ Cardinality({ index_mut(CtxBase(c), id) : id \in ValidIds }) = 48
          /\ Cardinality({ id \in RegIds : index(CtxBase(c), id) # Panic }) = 48
          /\ Cardinality({ id \in RegIds : index_mut(CtxBase(c), id) # Panic }) = 48
    /\ GpIds \cap FpIds = {}

\* The resolver is a function of the base and the number alone, so it is
\* examined once, in the initial states; the accesses are examined in all.
C1_IndexResolves ==
    /\ nops = 0 => C1_Resolver
    /\ (last.op \in {"index", "index_mut"} /\ last.id \in ValidIds) =>
          /\ status = "running"
          /\ last.slot = IF last.id \in GpIds THEN GpSlot(last.ctx, last.id)
                                              ELSE FpSlot(last.ctx, last.id - 256)
          /\ mem[last.slot] = last.val

\* A read of the last floating-point register number returned slot fp[31].
C1_Witness ==
    /\ status = "running"
    /\ last.op = "index"
    /\ last.id = 287
    /\ last.slot = FpSlot(last.ctx, 31)

(***************************************************************************)
(* C2.  For every register number outside 0..=15 and 256..=287 both index  *)
(* and index_mut fail fatally: the access panics, returns no slot, and     *)
(* reads or modifies no slot of the Context.                               *)
(***************************************************************************)
C2_Resolver ==
    \A c \in Ctxs : \A id \in RegIds \ ValidIds :
        /\ index(CtxBase(c), id) = Panic
        /\ index_mut(CtxBase(c), id) = Panic

C2_InvalidIdFatal ==
    [][ /\ nops = 0 => C2_Resolver
        /\ ((Did("index") \/ Did("index_mut")) /\ last'.id \notin ValidIds) =>
              /\ status' = "panicked"
              /\ last'.slot = Panic
              /\ mem' = mem
              /\ acc'.rd = {} /\ acc'.wr = {}
      ]_vars

\* A write through register number 200 panicked.
C2_Witness ==
    /\ status = "panicked"
    /\ last.op = "index_mut"
    /\ last.id = 200
    /\ last.slot = Panic

(***************************************************************************)
(* C3.  After restore_context(C) execution continues at the address held   *)
(* in the program-counter slot of C (general-purpose slot 15).             *)
(***************************************************************************)
C3_ResumesAtPcSlot ==
    last.op = "restore_context" => regs[15] = mem[GpSlot(last.ctx, 15)]

(***************************************************************************)
(* C4.  restore_context(C) installs every general-purpose slot 0..15 and,  *)
(* in a vfp2 build, every floating-point slot 0..31 of C into the live     *)
(* register of the same number.                                            *)
(***************************************************************************)
C4_RestoresEverySlot ==
    last.op = "restore_context" =>
        /\ \A k \in 0..15 : regs[k] = mem[GpSlot(last.ctx, k)]
        /\ vfp2 => \A k \in 0..31 : sregs[k] = mem[FpSlot(last.ctx, k)]

(***************************************************************************)
(* C5.  Round trip: restore_context(C) followed immediately by             *)
(* save_context() yields C2 with C2.gp[k] = C.gp[k] for k in 4..=11 and,   *)
(* in a vfp2 build, C2.fp[k] = C.fp[k] for k in 16..=31.  (restore_context *)
(* leaves C itself as it was.)                                             *)
(***************************************************************************)
C5_RoundTrip ==
    [][ /\ Did("restore_context") => mem' = mem
        /\ (last.op = "restore_context" /\ Did("save_context")) =>
              /\ \A k \in PreservedGp :
                    mem'[GpSlot(last'.ctx, k)] = mem[GpSlot(last.ctx, k)]
              /\ vfp2 => \A k \in CapturedFp :
                    mem'[FpSlot(last'.ctx, k)] = mem[FpSlot(last.ctx, k)]
      ]_vars

\* Context 0 had slot 4 set to 0x1000, was restored, and the capture into
\* Context 1 that followed holds the same preserved slots.
C5_Witness ==
    /\ last.op = "save_context"
    /\ last.ctx = 1
    /\ regs[4] = 4096
    /\ mem[GpSlot(0, 4)] = 4096
    /\ mem[GpSlot(0, 5)] # 0
    /\ \A k \in PreservedGp : mem[GpSlot(1, k)] = mem[GpSlot(0, k)]
    /\ vfp2
    /\ \A k \in CapturedFp : mem[FpSlot(1, k)] = mem[FpSlot(0, k)]

(***************************************************************************)
(* C6.  save_context() returns a Context whose slots 4..=11, 13 and 14     *)
(* hold the values r4..r11, sp and lr had on entry and, in a vfp2 build,   *)
(* whose fp slots 16..=31 hold s16..s31; the capture changes none of these *)
(* registers.                                                              *)
(***************************************************************************)
C6_CapturesLiveRegisters ==
    [][ Did("save_context") =>
          /\ \A k \in CapturedGp \ {14} :
                /\ mem'[GpSlot(last'.ctx, k)] = regs[k]
                /\ regs'[k] = regs[k]
          /\ mem'[GpSlot(last'.ctx, 14)] = last'.ra
          /\ regs'[14] = last'.ra
          /\ vfp2 => \A k \in CapturedFp :
                /\ mem'[FpSlot(last'.ctx, k)] = sregs[k]
                /\ sregs'[k] = sregs[k]
      ]_vars

\* A capture in a vfp2 build recorded lr, r4, r11 and s16.
C6_Witness ==
    /\ last.op = "save_context"
    /\ vfp2
    /\ mem[GpSlot(last.ctx, 14)] = last.ra
    /\ mem[GpSlot(last.ctx, 4)] = regs[4]
    /\ mem[GpSlot(last.ctx, 11)] = regs[11]
    /\ mem[GpSlot(last.ctx, 10)] # regs[11]
    /\ mem[FpSlot(last.ctx, 16)] = sregs[16]

(***************************************************************************)
(* C7.  In the Context save_context() returns, every slot outside the      *)
(* captured set (gp 0..=3, 12, 15 and fp 0..=15; all 32 fp slots without   *)
(* vfp2) holds zero, whatever the destination held before.                 *)
(***************************************************************************)
C7_UncapturedSlotsZero ==
    last.op = "save_context" =>
        /\ \A k \in (0..15) \ CapturedGp : mem[GpSlot(last.ctx, k)] = 0
        /\ \A k \in (0..31) \ (IF vfp2 THEN CapturedFp ELSE {}) :
              mem[FpSlot(last.ctx, k)] = 0

(***************************************************************************)
(* C8.  In a build without vfp2, save_context writes no floating-point     *)
(* slot and restore_context reads none, and what they write to and read    *)
(* from the general-purpose slots is what the vfp2 build writes and reads. *)
(***************************************************************************)
C8_NoFpWithoutVfp2 ==
    [][ ~vfp2 =>
          /\ Did("save_context") =>
                /\ acc'.wr \cap AllFpSlots = {}
                /\ \A a \in AllFpSlots : mem'[a] = mem[a]
                /\ \A a \in AllGpSlots :
                      mem'[a] = Exec(save_context_asm(TRUE),
                                     Entry(CtxBase(last'.ctx), last'.ra)).mem[a]
          /\ Did("restore_context") =>
                /\ acc'.rd \cap AllFpSlots = {}
                /\ sregs' = sregs
                /\ \A ra \in RetAddrs :
                      regs' = Exec(restore_context_asm(TRUE),
                                   Entry(CtxBase(last'.ctx), ra)).r
      ]_vars

\* A capture in a build without vfp2 wrote general-purpose slots only.
C8_Witness ==
    /\ ~vfp2
    /\ last.op = "save_context"
    /\ GpSlot(last.ctx, 4) \in acc.wr
    /\ acc.wr \cap AllFpSlots = {}

(***************************************************************************)
(* C9.  Capture, Restore and the index resolver agree on the layout: each  *)
(* general-purpose register k they transfer goes through word offset k     *)
(* from the Context base, the slot index yields for number k, and each     *)
(* floating-point register s_k through word offset 16+k, the slot index    *)
(* yields for number 256+k.                                                *)
(***************************************************************************)
C9_Touched(c) ==
    { CtxBase(c) + 4 * k : k \in CapturedGp } \cup
    (IF vfp2 THEN { CtxBase(c) + 4 * (16 + k) : k \in CapturedFp } ELSE {})

C9_LayoutAgrees ==
    /\ last.op = "save_context" =>
          /\ acc.wr = C9_Touched(last.ctx)
          /\ \A k \in CapturedGp :
                /\ index(CtxBase(last.ctx), k) = CtxBase(last.ctx) + 4 * k
                /\ mem[index(CtxBase(last.ctx), k)] = regs[k]
          /\ vfp2 => \A k \in CapturedFp :
                /\ index(CtxBase(last.ctx), 256 + k) = CtxBase(last.ctx) + 4 * (16 + k)
                /\ mem[index(CtxBase(last.ctx), 256 + k)] = sregs[k]
    /\ last.op = "restore_context" =>
          /\ acc.rd = C9_Touched(last.ctx)
          /\ \A k \in CapturedGp :
                /\ index(CtxBase(last.ctx), k) = CtxBase(last.ctx) + 4 * k
                /\ regs[k] = mem[index(CtxBase(last.ctx), k)]
          /\ vfp2 => \A k \in CapturedFp :
                /\ index(CtxBase(last.ctx), 256 + k) = CtxBase(last.ctx) + 4 * (16 + k)
                /\ sregs[k] = mem[index(CtxBase(last.ctx), 256 + k)]

\* A restore in a vfp2 build loaded s31 from the slot of number 287, after
\* number 272 had been written through index_mut.
C9_Witness ==
    /\ last.op = "restore_context"
    /\ vfp2
    /\ sregs[16] = 4096
    /\ sregs[31] = mem[index(CtxBase(last.ctx), 287)]
    /\ index(CtxBase(last.ctx), 287) \in acc.rd

(***************************************************************************)
(* C10.  From a zero-initialised Context and after any writes through      *)
(* index_mut with valid numbers, reading a valid number through index      *)
(* returns the last value written to it, or zero if it was never written:  *)
(* Context::default() zeroes all 48 slots, a write sets the slot of its    *)
(* number and leaves the other 47 slots (and every other Context) as they  *)
(* were, and a read returns the slot's value and changes nothing.          *)
(***************************************************************************)
C10_WriteReadBack ==
    [][ /\ Did("default") =>
              \A id \in ValidIds : mem'[index(CtxBase(last'.ctx), id)] = 0
        /\ (Did("index_mut") /\ last'.id \in ValidIds) =>
              \A c \in Ctxs, id \in ValidIds :
                  mem'[index(CtxBase(c), id)] =
                      IF c = last'.ctx /\ id = last'.id
                      THEN last'.val
                      ELSE mem[index(CtxBase(c), id)]
        /\ (Did("index") /\ last'.id \in ValidIds) =>
              /\ last'.val = mem[index(CtxBase(last'.ctx), last'.id)]
              /\ mem' = mem
      ]_vars

\* Scenario A: 0x1000 written to number 13 and 0x2000 to number 14 read back.
C10_Witness ==
    /\ last.op = "index_mut"
    /\ last.id = 14
    /\ mem[index(CtxBase(last.ctx), 13)] = 4096
    /\ mem[index(CtxBase(last.ctx), 14)] = 8192
    /\ mem[index(CtxBase(last.ctx), 15)] = 0

====
